---- MODULE Spec2Model ----
(***************************************************************************)
(* Model of TenchuWoH_DeCompressor.cpp: the LZSS block decoder             *)
(* (decompressLZSSBlock), the defensive validator                          *)
(* (validateAndGetConsumedSize), the container scanner (scanContainer)     *)
(* and the extraction loop of processContainerFile.                        *)
(*                                                                         *)
(* Conventions.                                                            *)
(*  - A byte buffer is a sequence of 0..255; C++ index p is element p+1.   *)
(*  - size_t is modelled with SizeBits bits (arithmetic % SizeMod); the    *)
(*    program's size_t is wider, the wrap-around is the same.              *)
(*  - A uint32_t is a record [hi, lo] of two 16-bit halves, so that the    *)
(*    full 32-bit range is representable; comparisons are exact.           *)
(*  - `mask` holds the number of the bit it selects plus one               *)
(*    (0x80000000 is 32, 1 is 1) and 0 when the C++ mask is 0.             *)
(*  - A read outside the buffer is undefined behaviour: it either faults   *)
(*    or yields the bytes that happen to be there (the word `junk`).       *)
(***************************************************************************)
EXTENDS Integers, Sequences, FiniteSets, TLC

VARIABLES
    buf,          \* fileBuffer / inputData / block: the input bytes
    junk,         \* the 4 bytes that repeat in the memory around the buffer
    startOffset,  \* the validator's startOffset argument
    vst,          \* locals of one validateAndGetConsumedSize call
    dsrc,         \* what the decoder runs on: "none", "slice" or "whole"
    block,        \* the decoder's argument
    dst,          \* locals of one decompressLZSSBlock call
    pc,           \* position in processContainerFile / scanContainer
    off,          \* scanContainer's loop variable
    results,      \* scanContainer's candidate vector
    idx,          \* position of the dedup loop in the sorted candidates
    keptRanges,   \* scanContainer's keptRanges
    finalResults, \* scanContainer's finalResults
    oob,          \* addresses outside the buffer that scanContainer has read
    blk,          \* position of the extraction loop
    extracted     \* per extracted block: its descriptor and the decoder's outcome

vars == <<buf, junk, startOffset, vst, dsrc, block, dst, pc, off, results, idx,
          keptRanges, finalResults, oob, blk, extracted>>

fnVars == <<startOffset, vst, dsrc, block, dst>>
scanVars == <<pc, off, results, idx, keptRanges, finalResults, oob, blk, extracted>>

---------------------------------------------------------------------------
(* Bounds of the model *)

SizeBits == 7
MaxWords == 3
MaxPieces == 2
DataBase == 16
NullPage == 4

(* Program constants *)

DictSize == 4096
HeaderLen == 12
MinOffset == 8
ScanStep == 4

SizeMod == 2 ^ SizeBits

---------------------------------------------------------------------------
(* Integers of the program *)

U32(b0, b1, b2, b3) == [lo |-> b0 + 256 * b1, hi |-> b2 + 256 * b3]

U32Of(k) == [lo |-> k % 65536, hi |-> k \div 65536]

U32Less(a, b) == a.hi < b.hi \/ (a.hi = b.hi /\ a.lo < b.lo)

U32Leq(a, b) == ~U32Less(b, a)

ToSize(u) == u.hi * 65536 + u.lo

BitSet(word, mask) ==
    LET k == mask - 1
    IN  IF k >= 16 THEN (word.hi \div (2 ^ (k - 16))) % 2 = 1
                   ELSE (word.lo \div (2 ^ k)) % 2 = 1

(* dict_buf is std::vector<uint8_t>(4096, 0).  It is kept as the function  *)
(* from the indices written so far to their bytes; every other index of    *)
(* 0 .. DictSize-1 still holds the 0 it was constructed with.              *)

ZeroDict == [i \in {} |-> 0]

DictRead(dict, i) == IF i \in DOMAIN dict THEN dict[i] ELSE 0

DictWrite(dict, i, b) == (i :> b) @@ dict

---------------------------------------------------------------------------
(* decompressLZSSBlock *)

BlockByte(b, p) == b[p + 1]

BlockU32(b, p) ==
    U32(BlockByte(b, p), BlockByte(b, p + 1), BlockByte(b, p + 2), BlockByte(b, p + 3))

BlockU16(b, p) == BlockByte(b, p) + 256 * BlockByte(b, p + 1)

DecIdle ==
    [pc |-> "idle", why |-> "", warned |-> FALSE,
     off_literals |-> 0, off_pairs |-> 0,
     flags_pos |-> 0, lit_pos |-> 0, pair_pos |-> 0,
     dict_buf |-> ZeroDict, dict_index |-> 0, out |-> <<>>,
     flag_word |-> U32Of(0), mask |-> 0,
     offset |-> 0, length |-> 0, i |-> 0]

DecThrow(d, msg) == [d EXCEPT !.pc = "threw", !.why = msg]

\* Faulty variant: the header test accepts off_literals = size and off_pairs = size.
DecEnter_Lenient(b) ==
    IF Len(b) < HeaderLen
    THEN DecThrow(DecIdle, "Bloco pequeno demais")
    ELSE LET ol == BlockU32(b, 0)
             op == BlockU32(b, 4)
             size == U32Of(Len(b))
         IN  IF U32Less(size, ol) \/ U32Less(size, op) \/ U32Less(ol, U32Of(MinOffset))
             THEN DecThrow(DecIdle, "Offsets invalidos")
             ELSE [DecIdle EXCEPT !.pc = "loop",
                                  !.off_literals = ToSize(ol),
                                  !.off_pairs = ToSize(op),
                                  !.flags_pos = 8,
                                  !.lit_pos = ToSize(ol),
                                  !.pair_pos = ToSize(op),
                                  !.dict_index = 1]

DecEnter(b) ==
    IF Len(b) < HeaderLen
    THEN DecThrow(DecIdle, "Bloco pequeno demais")
    ELSE LET ol == BlockU32(b, 0)
             op == BlockU32(b, 4)
             size == U32Of(Len(b))
         IN  IF U32Leq(size, ol) \/ U32Leq(size, op) \/ U32Less(ol, U32Of(MinOffset))
             THEN DecThrow(DecIdle, "Offsets invalidos")
             ELSE [DecIdle EXCEPT !.pc = "loop",
                                  !.off_literals = ToSize(ol),
                                  !.off_pairs = ToSize(op),
                                  !.flags_pos = 8,
                                  !.lit_pos = ToSize(ol),
                                  !.pair_pos = ToSize(op),
                                  !.dict_index = 1]

DecEmit(d, b) ==
    [d EXCEPT !.out = Append(@, b),
              !.dict_buf = DictWrite(@, d.dict_index, b),
              !.dict_index = (@ + 1) % DictSize]

DecRefill(b, d) ==
    IF d.mask # 0 THEN d
    ELSE IF d.flags_pos + 4 > d.off_literals
         THEN [d EXCEPT !.mask = 32, !.pc = "returned", !.why = "flags",
                        !.warned = d.flags_pos < d.off_literals]
         ELSE [d EXCEPT !.mask = 32,
                        !.flag_word = BlockU32(b, d.flags_pos),
                        !.flags_pos = @ + 4]

DecLiteral(b, d) ==
    IF d.lit_pos >= d.off_pairs
    THEN DecThrow(d, "Stream de literais acabou")
    ELSE DecEmit([d EXCEPT !.lit_pos = @ + 1], BlockByte(b, d.lit_pos))

\* Faulty variant: the pair test is off by one (>= for >).
DecPair_OffByOne(b, d) ==
    IF d.pair_pos + 2 >= Len(b)
    THEN DecThrow(d, "Stream de pares acabou")
    ELSE LET pair_val == BlockU16(b, d.pair_pos)
             d1 == [d EXCEPT !.pair_pos = @ + 2]
         IN  IF pair_val \div 16 = 0
             THEN [d1 EXCEPT !.pc = "returned", !.why = "terminator", !.offset = 0]
             ELSE [d1 EXCEPT !.pc = "copy",
                             !.offset = pair_val \div 16,
                             !.length = (pair_val % 16) + 2,
                             !.i = 0]

DecPair(b, d) ==
    IF d.pair_pos + 2 > Len(b)
    THEN DecThrow(d, "Stream de pares acabou")
    ELSE LET pair_val == BlockU16(b, d.pair_pos)
             d1 == [d EXCEPT !.pair_pos = @ + 2]
         IN  IF pair_val \div 16 = 0
             THEN [d1 EXCEPT !.pc = "returned", !.why = "terminator", !.offset = 0]
             ELSE [d1 EXCEPT !.pc = "copy",
                             !.offset = pair_val \div 16,
                             !.length = (pair_val % 16) + 2,
                             !.i = 0]

DecBit(b, d) ==
    LET bit_set == BitSet(d.flag_word, d.mask)
        d1 == [d EXCEPT !.mask = @ - 1]
    IN  IF bit_set THEN DecLiteral(b, d1) ELSE DecPair(b, d1)

\* Faulty variant: a bulk copy, which does not put each byte into the
\* dictionary before the next one is read.
DecCopy_Bulk(d) ==
    [d EXCEPT !.out = Append(@, DictRead(d.dict_buf, (d.offset + d.i) % DictSize)),
              !.dict_index = (@ + 1) % DictSize,
              !.i = @ + 1,
              !.pc = IF d.i + 1 < d.length THEN "copy" ELSE "loop"]

DecCopy(d) ==
    LET e == DecEmit(d, DictRead(d.dict_buf, (d.offset + d.i) % DictSize))
    IN  [e EXCEPT !.i = @ + 1,
                  !.pc = IF d.i + 1 < d.length THEN "copy" ELSE "loop"]

DecStep(b, d) ==
    IF d.pc = "idle" THEN DecEnter(b)
    ELSE IF d.pc = "loop"
         THEN LET r == DecRefill(b, d)
              IN  IF r.pc = "loop" THEN DecBit(b, r) ELSE r
         ELSE IF d.pc = "copy" THEN DecCopy(d)
              ELSE d

DecFinal(d) == d.pc \in {"returned", "threw"}

---------------------------------------------------------------------------
(* Memory around fileBuffer.  Address a is relative to fileBuffer.data()   *)
(* and wraps like a pointer does; addresses 0 .. size-1 are the buffer.    *)

MemByte(B, jw, a) == IF a < Len(B) THEN B[a + 1] ELSE jw[(a % 4) + 1]

Addr(s, p) == (s + p) % SizeMod

Span(s, p, len) == {Addr(s, p + k) : k \in 0 .. len - 1}

MemU32(B, jw, s, p) ==
    U32(MemByte(B, jw, Addr(s, p)), MemByte(B, jw, Addr(s, p + 1)),
        MemByte(B, jw, Addr(s, p + 2)), MemByte(B, jw, Addr(s, p + 3)))

MemU16(B, jw, s, p) ==
    MemByte(B, jw, Addr(s, p)) + 256 * MemByte(B, jw, Addr(s, p + 1))

OutOfBuffer(B, addrs) == {a \in addrs : a >= Len(B)}

Unmapped(a) == (DataBase + a) % SizeMod < NullPage

---------------------------------------------------------------------------
(* validateAndGetConsumedSize *)

Plausible(ol, op, rem) ==
    /\ U32Leq(U32Of(MinOffset), ol)
    /\ U32Leq(ol, U32Of(rem))
    /\ U32Leq(U32Of(MinOffset), op)
    /\ U32Leq(op, U32Of(rem))
    /\ U32Leq(ol, op)

ValIdle ==
    [pc |-> "idle", why |-> "",
     success |-> FALSE, consumedBytes |-> 0, decompressedSize |-> 0,
     remainingSize |-> 0, off_literals |-> 0, off_pairs |-> 0,
     flags_pos |-> 0, lit_pos |-> 0, pair_pos |-> 0,
     dict_buf |-> ZeroDict, dict_index |-> 0, count |-> 0,
     flag_word |-> U32Of(0), mask |-> 0,
     offset |-> 0, length |-> 0, i |-> 0,
     reads |-> {}, dictAt |-> {}]

ValFail(v, reason) ==
    [v EXCEPT !.pc = "done", !.why = reason,
              !.success = FALSE, !.consumedBytes = 0, !.decompressedSize = 0]

ValEnter(B, jw, s) ==
    IF (s + HeaderLen) % SizeMod > Len(B)
    THEN ValFail(ValIdle, "header")
    ELSE LET rem == (Len(B) - s) % SizeMod
             ol == MemU32(B, jw, s, 0)
             op == MemU32(B, jw, s, 4)
             v == [ValIdle EXCEPT !.reads = Span(s, 0, 8), !.remainingSize = rem]
         IN  IF ~Plausible(ol, op, rem)
             THEN ValFail(v, "sanity")
             ELSE [v EXCEPT !.pc = "loop",
                            !.off_literals = ToSize(ol),
                            !.off_pairs = ToSize(op),
                            !.flags_pos = 8,
                            !.lit_pos = ToSize(ol),
                            !.pair_pos = ToSize(op),
                            !.dict_index = 1]

ValEmit(v, b) ==
    [v EXCEPT !.count = @ + 1,
              !.dict_buf = DictWrite(@, v.dict_index, b),
              !.dict_index = (@ + 1) % DictSize,
              !.dictAt = @ \cup {v.dict_index}]

\* Faulty variant: the end of the flag stream is accepted, as the decoder does.
ValRefill_Tolerant(B, jw, s, v) ==
    IF v.mask # 0 THEN v
    ELSE IF v.flags_pos + 4 > v.off_literals
         THEN [v EXCEPT !.mask = 32, !.pc = "done", !.why = "flags",
                        !.success = TRUE,
                        !.consumedBytes = v.pair_pos,
                        !.decompressedSize = v.count]
         ELSE [v EXCEPT !.mask = 32,
                        !.flag_word = MemU32(B, jw, s, v.flags_pos),
                        !.flags_pos = @ + 4,
                        !.reads = @ \cup Span(s, v.flags_pos, 4)]

ValRefill(B, jw, s, v) ==
    IF v.mask # 0 THEN v
    ELSE IF v.flags_pos + 4 > v.off_literals
         THEN ValFail([v EXCEPT !.mask = 32], "flags")
         ELSE [v EXCEPT !.mask = 32,
                        !.flag_word = MemU32(B, jw, s, v.flags_pos),
                        !.flags_pos = @ + 4,
                        !.reads = @ \cup Span(s, v.flags_pos, 4)]

ValLiteral(B, jw, s, v) ==
    IF v.lit_pos >= v.off_pairs
    THEN ValFail(v, "literals")
    ELSE ValEmit([v EXCEPT !.lit_pos = @ + 1,
                           !.reads = @ \cup Span(s, v.lit_pos, 1)],
                 MemByte(B, jw, Addr(s, v.lit_pos)))

ValPair(B, jw, s, v) ==
    IF v.pair_pos + 2 > v.remainingSize
    THEN ValFail(v, "pairs")
    ELSE LET pair_val == MemU16(B, jw, s, v.pair_pos)
             v1 == [v EXCEPT !.pair_pos = @ + 2,
                             !.reads = @ \cup Span(s, v.pair_pos, 2)]
         IN  IF pair_val \div 16 = 0
             THEN [v1 EXCEPT !.pc = "done", !.why = "terminator", !.offset = 0,
                             !.success = TRUE,
                             !.consumedBytes = v1.pair_pos,
                             !.decompressedSize = v1.count]
             ELSE [v1 EXCEPT !.pc = "copy",
                             !.offset = pair_val \div 16,
                             !.length = (pair_val % 16) + 2,
                             !.i = 0]

ValBit(B, jw, s, v) ==
    LET bit_set == BitSet(v.flag_word, v.mask)
        v1 == [v EXCEPT !.mask = @ - 1]
    IN  IF bit_set THEN ValLiteral(B, jw, s, v1) ELSE ValPair(B, jw, s, v1)

ValCopy(v) ==
    LET src == (v.offset + v.i) % DictSize
        e == ValEmit(v, DictRead(v.dict_buf, src))
    IN  [e EXCEPT !.i = @ + 1,
                  !.dictAt = @ \cup {src},
                  !.pc = IF v.i + 1 < v.length THEN "copy" ELSE "loop"]

ValStep(B, jw, s, v) ==
    IF v.pc = "idle" THEN ValEnter(B, jw, s)
    ELSE IF v.pc = "loop"
         THEN LET r == ValRefill(B, jw, s, v)
              IN  IF r.pc = "loop" THEN ValBit(B, jw, s, r) ELSE r
         ELSE IF v.pc = "copy" THEN ValCopy(v)
              ELSE v

---------------------------------------------------------------------------
(* Inputs: byte buffers built from 4-byte words, cut at any length, and    *)
(* buffers built from whole blocks.                                        *)

Z == <<0, 0, 0, 0>>
H8 == <<8, 0, 0, 0>>
H12 == <<12, 0, 0, 0>>
H13 == <<13, 0, 0, 0>>
H44 == <<44, 0, 0, 0>>
F == <<0, 0, 0, 128>>
FF == <<255, 255, 255, 255>>
P == <<16, 0, 16, 0>>
L == <<171, 16, 0, 0>>

Words == {Z, H8, H12, F}

JunkWords == {Z, H12}

RECURSIVE Flatten(_)
Flatten(ws) == IF ws = <<>> THEN <<>> ELSE Head(ws) \o Flatten(Tail(ws))

MinBlock == Flatten(<<H12, H12, Z, Z>>)
SelfRefBlock == Flatten(<<H12, H13, F, L, Z>>)
OverlapBlock == Flatten(<<H12, H12, H12, Z, Z>>)
CopyBlock == Flatten(<<H12, H12, Z, P, Z>>)
PairsEndBlock == Flatten(<<H12, H12, Z, P>>)
WarnBlock == Flatten(<<<<10, 0, 0, 0>>, <<10, 0, 0, 0>>, Z>>)
WrapRefBlock == Flatten(<<H12, H13, F, <<171, 241, 255, 0>>, Z>>)
AllLitBlock == Flatten(<<H12, H44, FF, Z, P, L, F, Z, P, L, F, Z>>)

Pieces == {MinBlock, SelfRefBlock, OverlapBlock, CopyBlock, PairsEndBlock, Z}

SeqsUpTo(S, n) == UNION {[1 .. k -> S] : k \in 0 .. n}

WordBuffers ==
    {SubSeq(Flatten(ws), 1, Len(ws) * 4 - cut) :
        ws \in SeqsUpTo(Words, MaxWords) \ {<<>>}, cut \in 0 .. 3}

PieceBuffers == {Flatten(ps) : ps \in SeqsUpTo(Pieces, MaxPieces)}

Buffers == WordBuffers \cup PieceBuffers \cup {AllLitBlock, WarnBlock, WrapRefBlock}

WrapOffsets == (SizeMod - HeaderLen) .. (SizeMod - 1)

StartOffsets(B) == (0 .. Len(B)) \cup WrapOffsets

---------------------------------------------------------------------------
(* The two functions, called on their own *)

ScanIdle ==
    /\ pc = "fn"
    /\ off = 0
    /\ results = <<>>
    /\ idx = 0
    /\ keptRanges = <<>>
    /\ finalResults = <<>>
    /\ oob = {}
    /\ blk = 0
    /\ extracted = <<>>

InitFn ==
    /\ buf \in Buffers
    /\ junk \in JunkWords
    /\ startOffset \in StartOffsets(buf)
    /\ vst = ValIdle
    /\ dsrc = "none"
    /\ block = <<>>
    /\ dst = DecIdle
    /\ ScanIdle

NewReads(v) == OutOfBuffer(buf, ValStep(buf, junk, startOffset, v).reads \ v.reads)

Validate ==
    /\ pc \in {"fn", "validate"}
    /\ vst.pc \in {"idle", "loop", "copy"}
    /\ \A a \in NewReads(vst) : ~Unmapped(a)
    /\ vst' = ValStep(buf, junk, startOffset, vst)
    /\ UNCHANGED <<buf, junk, startOffset, dsrc, block, dst>>
    /\ UNCHANGED scanVars

ValidateFault ==
    /\ pc = "fn"
    /\ vst.pc \in {"idle", "loop", "copy"}
    /\ NewReads(vst) # {}
    /\ vst' = [vst EXCEPT !.pc = "fault",
                          !.reads = ValStep(buf, junk, startOffset, vst).reads]
    /\ UNCHANGED <<buf, junk, startOffset, dsrc, block, dst>>
    /\ UNCHANGED scanVars

Slice(B, jw, s, len) == [k \in 1 .. len |-> MemByte(B, jw, Addr(s, k - 1))]

\* rawBlock(inputData.begin() + off, inputData.begin() + end), end = off + consumedSize
RawBlock(B, jw, o, consumed) ==
    LET end == (o + consumed) % SizeMod
    IN  Slice(B, jw, o, (end - o) % SizeMod)

TakeSlice ==
    /\ pc = "fn"
    /\ vst.pc = "done" /\ vst.success
    /\ dsrc = "none"
    /\ \A a \in Span(startOffset, 0, vst.consumedBytes) : ~Unmapped(a)
    /\ dsrc' = "slice"
    /\ block' = RawBlock(buf, junk, startOffset, vst.consumedBytes)
    /\ UNCHANGED <<buf, junk, startOffset, vst, dst>>
    /\ UNCHANGED scanVars

TakeSliceFault ==
    /\ pc = "fn"
    /\ vst.pc = "done" /\ vst.success
    /\ dsrc = "none"
    /\ OutOfBuffer(buf, Span(startOffset, 0, vst.consumedBytes)) # {}
    /\ dsrc' = "fault"
    /\ UNCHANGED <<buf, junk, startOffset, vst, block, dst>>
    /\ UNCHANGED scanVars

TakeWhole ==
    /\ pc = "fn"
    /\ vst.pc = "done"
    /\ startOffset = 0
    /\ dsrc = "none"
    /\ dsrc' = "whole"
    /\ block' = buf
    /\ UNCHANGED <<buf, junk, startOffset, vst, dst>>
    /\ UNCHANGED scanVars

Decode ==
    /\ pc \in {"fn", "decode"}
    /\ dsrc \in {"slice", "whole"}
    /\ ~DecFinal(dst)
    /\ dst' = DecStep(block, dst)
    /\ UNCHANGED <<buf, junk, startOffset, vst, dsrc, block>>
    /\ UNCHANGED scanVars

NextFn ==
    \/ Validate
    \/ ValidateFault
    \/ TakeSlice
    \/ TakeSliceFault
    \/ TakeWhole
    \/ Decode

SpecFn == InitFn /\ [][NextFn]_vars

-------------------------------------------------------------------------------------------------------------------------------------------------
(* processContainerFile and scanContainer.  The call of the validator at   *)
(* line 236 runs the steps of Validate on (buf, off); the call of the      *)
(* decoder at line 323 runs the steps of Decode on rawBlock.               *)

FnIdle ==
    /\ startOffset = 0
    /\ vst = ValIdle
    /\ dsrc = "none"
    /\ block = <<>>
    /\ dst = DecIdle

InitScan ==
    /\ buf \in Buffers
    /\ junk \in JunkWords
    /\ FnIdle
    /\ pc = "start"
    /\ off = 0
    /\ results = <<>>
    /\ idx = 0
    /\ keptRanges = <<>>
    /\ finalResults = <<>>
    /\ oob = {}
    /\ blk = 0
    /\ extracted = <<>>

ReadInput ==
    /\ pc = "start"
    /\ pc' = IF buf = <<>> THEN "failed" ELSE "enumerate"
    /\ UNCHANGED <<buf, junk, off, results, idx, keptRanges, finalResults, oob, blk,
                   extracted>>
    /\ UNCHANGED fnVars

LoopBound == (Len(buf) - HeaderLen) % SizeMod

ScanPlausible(ol, orf, rem) ==
    /\ U32Leq(U32Of(MinOffset), ol)
    /\ U32Leq(ol, U32Of(rem))
    /\ U32Leq(U32Of(MinOffset), orf)
    /\ U32Leq(orf, U32Of(rem))
    /\ U32Leq(ol, orf)

HeaderOutside == OutOfBuffer(buf, Span(off, 0, 8))

Enumerate ==
    /\ pc = "enumerate"
    /\ off <= LoopBound
    /\ \A a \in HeaderOutside : ~Unmapped(a)
    /\ oob' = oob \cup HeaderOutside
    /\ LET ol == MemU32(buf, junk, off, 0)
           orf == MemU32(buf, junk, off, 4)
           rem == (Len(buf) - off) % SizeMod
       IN  IF ScanPlausible(ol, orf, rem)
           THEN /\ pc' = "validate"
                /\ startOffset' = off
                /\ vst' = ValIdle
                /\ off' = off
           ELSE /\ pc' = pc
                /\ off' = (off + ScanStep) % SizeMod
                /\ UNCHANGED <<startOffset, vst>>
    /\ UNCHANGED <<buf, junk, results, idx, keptRanges, finalResults, blk, extracted>>
    /\ UNCHANGED <<dsrc, block, dst>>

EnumerateFault ==
    /\ pc = "enumerate"
    /\ off <= LoopBound
    /\ HeaderOutside # {}
    /\ oob' = oob \cup HeaderOutside
    /\ pc' = "crashed"
    /\ UNCHANGED <<buf, junk, off, results, idx, keptRanges, finalResults, blk, extracted>>
    /\ UNCHANGED fnVars

Record ==
    /\ pc = "validate"
    /\ vst.pc = "done"
    /\ results' = IF vst.success /\ vst.consumedBytes > 0
                  THEN Append(results, [offset |-> off,
                                        consumedSize |-> vst.consumedBytes,
                                        decompressedSize |-> vst.decompressedSize])
                  ELSE results
    /\ off' = (off + ScanStep) % SizeMod
    /\ pc' = "enumerate"
    /\ UNCHANGED <<buf, junk, idx, keptRanges, finalResults, oob, blk, extracted>>
    /\ UNCHANGED fnVars

ScanResultLess(a, b) ==
    IF a.offset # b.offset THEN a.offset < b.offset
    ELSE a.consumedSize > b.consumedSize

SortCandidates ==
    /\ pc = "enumerate"
    /\ off > LoopBound
    /\ results' = SortSeq(results, ScanResultLess)
    /\ idx' = 1
    /\ keptRanges' = <<>>
    /\ finalResults' = <<>>
    /\ pc' = "dedup"
    /\ UNCHANGED <<buf, junk, off, oob, blk, extracted>>
    /\ UNCHANGED fnVars

\* Faulty variant: the second comparison uses the kept range's start.
Overlaps_StartOnly(o, end, kept) ==
    \E j \in 1 .. Len(kept) : ~(end <= kept[j][1] \/ o >= kept[j][1])

\* Faulty variant: the negation is missing.
Overlaps_Inverted(o, end, kept) ==
    \E j \in 1 .. Len(kept) : end <= kept[j][1] \/ o >= kept[j][2]

Overlaps(o, end, kept) ==
    \E j \in 1 .. Len(kept) : ~(end <= kept[j][1] \/ o >= kept[j][2])

Dedup ==
    /\ pc = "dedup"
    /\ idx <= Len(results)
    /\ LET r == results[idx]
           o == r.offset
           end == (r.offset + r.consumedSize) % SizeMod
       IN  IF Overlaps(o, end, keptRanges)
           THEN UNCHANGED <<keptRanges, finalResults>>
           ELSE /\ keptRanges' = Append(keptRanges, <<o, end>>)
                /\ finalResults' = Append(finalResults, r)
    /\ idx' = idx + 1
    /\ UNCHANGED <<buf, junk, pc, off, results, oob, blk, extracted>>
    /\ UNCHANGED fnVars

ScanReturn ==
    /\ pc = "dedup"
    /\ idx > Len(results)
    /\ pc' = IF finalResults = <<>> THEN "done" ELSE "extract"
    /\ blk' = 1
    /\ UNCHANGED <<buf, junk, off, results, idx, keptRanges, finalResults, oob, extracted>>
    /\ UNCHANGED fnVars

ExtractBegin ==
    /\ pc = "extract"
    /\ blk <= Len(finalResults)
    /\ LET blockInfo == finalResults[blk]
       IN  block' = RawBlock(buf, junk, blockInfo.offset, blockInfo.consumedSize)
    /\ dsrc' = "slice"
    /\ dst' = DecIdle
    /\ pc' = "decode"
    /\ UNCHANGED <<buf, junk, off, results, idx, keptRanges, finalResults, oob, blk,
                   extracted>>
    /\ UNCHANGED <<startOffset, vst>>

ExtractEnd ==
    /\ pc = "decode"
    /\ DecFinal(dst)
    /\ extracted' = Append(extracted,
          [offset |-> finalResults[blk].offset,
           threw |-> dst.pc = "threw",
           size |-> Len(dst.out),
           warning |-> /\ dst.pc = "returned"
                       /\ Len(dst.out) # finalResults[blk].decompressedSize])
    /\ blk' = blk + 1
    /\ pc' = "extract"
    /\ UNCHANGED <<buf, junk, off, results, idx, keptRanges, finalResults, oob>>
    /\ UNCHANGED fnVars

Finish ==
    /\ pc = "extract"
    /\ blk > Len(finalResults)
    /\ pc' = "done"
    /\ UNCHANGED <<buf, junk, off, results, idx, keptRanges, finalResults, oob, blk,
                   extracted>>
    /\ UNCHANGED fnVars

NextScan ==
    \/ ReadInput
    \/ Enumerate
    \/ EnumerateFault
    \/ Validate
    \/ Record
    \/ SortCandidates
    \/ Dedup
    \/ ScanReturn
    \/ ExtractBegin
    \/ Decode
    \/ ExtractEnd
    \/ Finish

SpecScan == InitScan /\ [][NextScan]_vars

FairSpecScan == SpecScan /\ WF_vars(NextScan)

-----
(* Claims about the two functions (specification SpecFn) *)

InBuffer(B) == 0 .. Len(B) - 1

\* C1: whenever the validator accepts (buf, startOffset) with consumedBytes c and
\* decompressedSize d, the decoder run on the c bytes taken at startOffset does
\* not throw, and when it returns its output has exactly d bytes.
C1_Agreement ==
    dsrc = "slice" =>
        /\ dst.pc # "threw"
        /\ dst.pc = "returned" => Len(dst.out) = vst.decompressedSize

C1_Witness ==
    /\ dsrc = "slice"
    /\ startOffset > 0
    /\ dst.pc = "returned"
    /\ Len(dst.out) >= 3

\* C2: every byte the validator reads lies inside the buffer, and every
\* dictionary index it touches lies in 0 .. 4095, whatever the buffer and the
\* start offset are.
C2_BoundsSafety ==
    /\ vst.reads \subseteq InBuffer(buf)
    /\ vst.dictAt \subseteq 0 .. DictSize - 1

\* C5: the validator reports success only after reading a pair code whose
\* dictionary offset is zero, consumedBytes being the position just after that
\* pair; a call that ends for any other reason reports (false, 0, 0).
C5_TerminatorStrict ==
    /\ vst.success =>
          /\ vst.pc = "done"
          /\ vst.pair_pos >= vst.off_pairs + 2
          /\ MemU16(buf, junk, startOffset, vst.pair_pos - 2) \div 16 = 0
          /\ vst.consumedBytes = vst.pair_pos
    /\ (vst.pc = "done" /\ vst.why # "terminator") =>
          /\ ~vst.success
          /\ vst.consumedBytes = 0
          /\ vst.decompressedSize = 0
    /\ (vst.pc = "done" /\ vst.why = "terminator") => vst.success

C5_Witness ==
    /\ vst.pc = "done"
    /\ vst.why = "flags"
    /\ ~vst.success
    /\ dsrc = "whole"
    /\ dst.pc = "returned"
    /\ dst.why = "flags"
    /\ Len(dst.out) > 0

\* C10: on success the consumed range lies inside the buffer and covers all the
\* validator read: off_pairs + 2 <= c <= size - startOffset, and every byte read
\* has its index in startOffset .. startOffset + c - 1.
C10_ConsumedRange ==
    vst.success =>
        /\ vst.off_pairs + 2 <= vst.consumedBytes
        /\ vst.consumedBytes >= 14
        /\ vst.consumedBytes <= Len(buf) - startOffset
        /\ vst.reads \subseteq startOffset .. (startOffset + vst.consumedBytes - 1)

\* What holds of C2 and C10 on the offsets for which startOffset + 12 does not
\* wrap around.
NoWrap == startOffset + HeaderLen < SizeMod

BoundsSafeNoWrap == NoWrap => C2_BoundsSafety

ConsumedRangeNoWrap == NoWrap => C10_ConsumedRange

---------------------------------------------------------------------------
(* The decoder's contract, stated on the block's bytes and the cursors *)

Short(b) == Len(b) < 12

BadHeader(b) ==
    /\ ~Short(b)
    /\ \/ U32Leq(U32Of(Len(b)), BlockU32(b, 0))
       \/ U32Leq(U32Of(Len(b)), BlockU32(b, 4))
       \/ U32Less(BlockU32(b, 0), U32Of(8))

FlagsEnd(d) == d.mask = 0 /\ d.flags_pos + 4 > d.off_literals

LiteralBit(b, d) ==
    IF d.mask = 0 THEN BlockByte(b, d.flags_pos + 3) >= 128
    ELSE BitSet(d.flag_word, d.mask)

LiteralStarved(b, d) == ~FlagsEnd(d) /\ LiteralBit(b, d) /\ d.lit_pos >= d.off_pairs

PairStarved(b, d) == ~FlagsEnd(d) /\ ~LiteralBit(b, d) /\ d.pair_pos + 2 > Len(b)

ReadsTerminator(b, d) ==
    /\ ~FlagsEnd(d)
    /\ ~LiteralBit(b, d)
    /\ d.pair_pos + 2 <= Len(b)
    /\ BlockByte(b, d.pair_pos + 1) = 0
    /\ BlockByte(b, d.pair_pos) < 16

MustThrow(b, d) ==
    \/ d.pc = "idle" /\ (Short(b) \/ BadHeader(b))
    \/ d.pc = "loop" /\ (LiteralStarved(b, d) \/ PairStarved(b, d))

MustReturn(b, d) == d.pc = "loop" /\ (FlagsEnd(d) \/ ReadsTerminator(b, d))

DecodeStepContract ==
    (dsrc \in {"slice", "whole"} /\ dst' # dst) =>
        /\ dst'.pc = "threw" <=> MustThrow(block, dst)
        /\ dst'.pc = "returned" <=> MustReturn(block, dst)
        /\ dst'.pc = "returned" => dst'.out = dst.out

---------------------------------------------------------------------------
(* The dictionary *)

DecStarted(d) ==
    \/ d.pc \in {"loop", "copy"}
    \/ d.pc = "returned"
    \/ d.pc = "threw" /\ d.why \in {"Stream de literais acabou", "Stream de pares acabou"}

\* The dictionary holds output byte k at index k (the cursor starts at 1), zero
\* elsewhere, and the cursor is one past the last byte written.
DictMirrorsOutput ==
    DecStarted(dst) =>
        /\ Len(dst.out) < DictSize
        /\ dst.dict_index = (1 + Len(dst.out)) % DictSize
        /\ \A k \in 0 .. DictSize - 1 :
              DictRead(dst.dict_buf, k) =
                  (IF 1 <= k /\ k <= Len(dst.out) THEN dst.out[k] ELSE 0)

\* Byte i of a copy is what stands at (offset + i) mod 4096 once the first i
\* bytes of the same copy are in place: an earlier output byte, possibly one of
\* this copy, or the initial zero.
CopyStepContract ==
    (dst.pc = "copy" /\ dst' # dst) =>
        LET src == (dst.offset + dst.i) % DictSize
            b == IF 1 <= src /\ src <= Len(dst.out) THEN dst.out[src] ELSE 0
        IN  /\ dst.length = (BlockByte(block, dst.pair_pos - 2) % 16) + 2
            /\ dst.offset = BlockU16(block, dst.pair_pos - 2) \div 16
            /\ dst.i < dst.length
            /\ dst'.out = Append(dst.out, b)
            /\ dst'.i = dst.i + 1
            /\ dst'.pc = "copy" <=> dst'.i < dst.length

SelfRefExample ==
    (block = SubSeq(SelfRefBlock, 1, 17) /\ dst.pc = "returned") =>
        dst.out = <<171, 171, 171>>

ValidatorDictAgrees ==
    (dsrc = "slice" /\ dst.pc = "returned") =>
        /\ vst.dict_buf = dst.dict_buf
        /\ vst.dict_index = dst.dict_index

---------------------------------------------------------------------------
(* Claims about the scan (specifications SpecScan and FairSpecScan) *)

Returned == pc \in {"extract", "done"}

End(r) == r.offset + r.consumedSize

Intersect(a, b) == a.offset < End(b) /\ b.offset < End(a)

Range(s) == {s[k] : k \in 1 .. Len(s)}

\* C3: for a buffer of fewer than 12 bytes the enumeration visits no offset,
\* reads no header word outside the buffer, and the scan returns an empty
\* result without failing.
C3_EmptyInput ==
    Len(buf) < 12 =>
        /\ oob = {}
        /\ pc # "crashed"
        /\ off = 0
        /\ results = <<>>

\* C4: the scan result is strictly increasing in offset and the intervals
\* [offset, offset + consumedSize) of its descriptors are pairwise disjoint.
C4_OrderedDisjoint ==
    \A i, j \in 1 .. Len(finalResults) :
        i < j =>
            /\ finalResults[i].offset < finalResults[j].offset
            /\ End(finalResults[i]) <= finalResults[j].offset

C4_Witness ==
    /\ pc = "done"
    /\ Len(finalResults) >= 2
    /\ Len(results) > Len(finalResults)

\* C6: the scan of any buffer eventually returns.
C6_ScanTerminates == <>(pc \in {"done", "failed"})

\* What holds of C6 and C3 on buffers of 12 bytes and more.
ScanTerminatesFrom12 == Len(buf) >= HeaderLen => <>(pc = "done")

ScanInBufferFrom12 ==
    Len(buf) >= HeaderLen =>
        /\ oob = {}
        /\ pc # "crashed"
        /\ pc = "validate" => vst.reads \subseteq InBuffer(buf)
        /\ \A k \in 1 .. Len(extracted) : ~extracted[k].threw /\ ~extracted[k].warning

\* C9: once the scan has returned, every recorded candidate that is not in the
\* result intersects a descriptor that is, and the recorded candidate with the
\* smallest offset is in the result.
C9_Maximal ==
    Returned =>
        /\ \A r \in Range(results) :
              \/ r \in Range(finalResults)
              \/ \E k \in Range(finalResults) : Intersect(r, k)
        /\ \A r \in Range(results) :
              (\A q \in Range(results) : r.offset <= q.offset)
                  => r \in Range(finalResults)

C9_Witness ==
    /\ pc = "done"
    /\ Len(finalResults) >= 1
    /\ \E r \in Range(results) : r \notin Range(finalResults)
    /\ \E k \in Range(finalResults) : k.offset > 0

====
